---- MODULE Spec2Model ----
(***************************************************************************)
(* A model of spritebot_storage (src/spritebot_storage/src/lib.rs): the    *)
(* grid slicer (get_image), the marker codec (find_pixel_in_image,         *)
(* FrameOffset::from_images), the sheet packer (Animation::generate_sheet) *)
(* and the assembler (Sprite::new, Sprite::write_to_folder).               *)
(*                                                                         *)
(* An RgbaU8 buffer is a record [width, height, data]; data maps the       *)
(* coordinates <<x, y>> of the pixels that are not (0,0,0,0) to their      *)
(* value, every other pixel of the buffer being (0,0,0,0), which is what   *)
(* ImageBuffer::new fills a buffer with.  The representation is exact and  *)
(* canonical: two buffers hold the same pixels iff the records are equal.  *)
(*                                                                         *)
(* TLC's integers are 32-bit signed, so 2^32 is not a value of the model:  *)
(* u32 is modelled as an unsigned word of U32Bits bits (at most 31), with  *)
(* the wrapping or trapping arithmetic of the source; u16 and u8 keep      *)
(* their widths.                                                           *)
(***************************************************************************)
EXTENDS Integers, Sequences, FiniteSets, TLC

VARIABLES pc, sprite, vfs, call, ret

vars == <<pc, sprite, vfs, call, ret>>

(***************************************************************************)
(* Widths                                                                  *)
(***************************************************************************)
U8Max == 255
U16Max == 65535
U32Bits == 30
U32Max == (2^(U32Bits - 1) - 1) * 2 + 1
MinCell == 8

(***************************************************************************)
(* Result<T, SpriteBotStorageError>, and a panic (unwrap, an out-of-bounds *)
(* pixel access, an overflow trap) as a third outcome.                     *)
(***************************************************************************)
Ok(v) == [tag |-> "Ok", val |-> v]
Err(e) == [tag |-> "Err", err |-> e]
Panic(m) == [tag |-> "Panic", msg |-> m]
NoRet == [tag |-> "None"]
IsOk(r) == r.tag = "Ok"
IsErr(r, k) == r.tag = "Err" /\ r.err.kind = k

SpriteSizeZero(anim_name, image_kind, side_name) ==
    [kind |-> "SpriteSizeZero", anim |-> anim_name, image |-> image_kind,
     side |-> side_name]
SpriteSizeNotMultiple(anim_name, image_kind, side_name) ==
    [kind |-> "SpriteSizeNotMultiple", anim |-> anim_name, image |-> image_kind,
     side |-> side_name]
SpriteSizeNotIdentical(anim_name) ==
    [kind |-> "SpriteSizeNotIdentical", anim |-> anim_name]
InconsistantDuration(anim_name, found, declared) ==
    [kind |-> "InconsistantDuration", anim |-> anim_name, found |-> found,
     declared |-> declared]
ColorNotFoundInPixelData(anim_name, column_nb, row_nb, image_kind, color_text) ==
    [kind |-> "ColorNotFoundInPixelData", anim |-> anim_name, column |-> column_nb,
     row |-> row_nb, image |-> image_kind, color |-> color_text]
ColorDuplicateInPixelDate(anim_name, column_nb, row_nb, image_kind, color_text) ==
    [kind |-> "ColorDuplicateInPixelDate", anim |-> anim_name, column |-> column_nb,
     row |-> row_nb, image |-> image_kind, color |-> color_text]
VfsError(path) == [kind |-> "VfsError", path |-> path]
ErrorImageRead(image_kind, anim_name) ==
    [kind |-> "ErrorImageRead", image |-> image_kind, anim |-> anim_name]
WriteImageError(file_name) == [kind |-> "WriteImageError", path |-> file_name]
XmlReadError == [kind |-> "XmlReadError"]
TooLargeDuration == [kind |-> "TooLargeDuration"]
TooLargeGeneratedSheet == [kind |-> "TooLargeGeneratedSheet"]
InvalidHeadPosition == [kind |-> "InvalidHeadPosition"]
OffsetTooLarge == [kind |-> "OffsetTooLarge"]

(***************************************************************************)
(* Pixels and buffers                                                      *)
(***************************************************************************)
Rgba(r, g, b, a) == <<r, g, b, a>>
Transparent == Rgba(0, 0, 0, 0)
NoData == [p \in {} |-> Transparent]

\* ImageBuffer::new(width, height): every pixel (0,0,0,0).
RgbaU8_new(width, height) == [width |-> width, height |-> height, data |-> NoData]

get_pixel(image, x, y) ==
    IF <<x, y>> \in DOMAIN image.data THEN image.data[<<x, y>>] ELSE Transparent

InBounds(image, x, y) == x < image.width /\ y < image.height

\* put_pixel / get_pixel_mut assignment at an in-bounds coordinate.
put_pixel(image, x, y, pixel) ==
    LET keep == DOMAIN image.data \ {<<x, y>>}
        dom == IF pixel = Transparent THEN keep ELSE keep \cup {<<x, y>>}
    IN [image EXCEPT !.data =
            [p \in dom |-> IF p = <<x, y>> THEN pixel ELSE image.data[p]]]

\* The pixel with channel c (1..4 for R, G, B, A) set to v.
SetChannel(pixel, c, v) == [pixel EXCEPT ![c] = v]

\* img.view(x, y, width, height).to_image()
view(image, x, y, width, height) ==
    LET inside == {p \in DOMAIN image.data :
                      /\ x <= p[1] /\ p[1] < x + width
                      /\ y <= p[2] /\ p[2] < y + height}
        moved == {<<p[1] - x, p[2] - y>> : p \in inside}
    IN [width |-> width, height |-> height,
        data |-> [q \in moved |-> image.data[<<q[1] + x, q[2] + y>>]]]

\* GenericImage::copy_from(other, x, y) once its bounds check has passed:
\* every pixel of other, the (0,0,0,0) ones too, replaces the pixel under it.
copy_from(image, other, x, y) ==
    LET under == {p \in DOMAIN image.data :
                     /\ x <= p[1] /\ p[1] < x + other.width
                     /\ y <= p[2] /\ p[2] < y + other.height}
        added == {<<q[1] + x, q[2] + y>> : q \in DOMAIN other.data}
        dom == (DOMAIN image.data \ under) \cup added
    IN [image EXCEPT !.data =
            [p \in dom |-> IF p \in added THEN other.data[<<p[1] - x, p[2] - y>>]
                           ELSE image.data[p]]]

(***************************************************************************)
(* The storage collaborator, as the repository uses it: vfs::PhysicalFS    *)
(* (develop_binary/src/main.rs), which resolves a path with and without a  *)
(* leading "/" to the same file of its root directory.  A path is the      *)
(* sequence of the pieces its format! string joins.                        *)
(***************************************************************************)
Resolve(path) == IF path # <<>> /\ Head(path) = "/" THEN Tail(path) ELSE path
PngFile(image) == [type |-> "png", image |-> image]
OtherFile == [type |-> "other"]
NoFiles == [p \in {} |-> OtherFile]
FileExists(fs, path) == Resolve(path) \in DOMAIN fs
ReadFile(fs, path) == fs[Resolve(path)]
CreateFile(fs, path, content) ==
    [p \in DOMAIN fs \cup {Resolve(path)} |->
        IF p = Resolve(path) THEN content ELSE fs[p]]

(***************************************************************************)
(* Grid slicer                                                             *)
(***************************************************************************)
\* Mutant: the zero divider is not told apart from a size that is no multiple.
get_number_of_component_on_axis_no_zero(size, divider, side_name, anim_name, image_kind) ==
    IF divider = 0 \/ size % divider # 0
    THEN Err(SpriteSizeNotMultiple(anim_name, image_kind, side_name))
    ELSE Ok(size \div divider)

get_number_of_component_on_axis(size, divider, side_name, anim_name, image_kind) ==
    IF divider = 0
    THEN Err(SpriteSizeZero(anim_name, image_kind, side_name))
    ELSE IF size % divider # 0
         THEN Err(SpriteSizeNotMultiple(anim_name, image_kind, side_name))
         ELSE Ok(size \div divider)

\* Mutant: the two axes' cell sizes are exchanged in the origin of a frame.
slice_grid_swapped(img, nb_on_width, nb_on_height, frame_height, frame_width) ==
    [column \in 1..nb_on_height |->
        [row \in 1..nb_on_width |->
            view(img, (row - 1) * frame_height, (column - 1) * frame_width,
                 frame_width, frame_height)]]

\* The two loops of get_image: line `column` holds the frames `row`.
slice_grid(img, nb_on_width, nb_on_height, frame_height, frame_width) ==
    [column \in 1..nb_on_height |->
        [row \in 1..nb_on_width |->
            view(img, (row - 1) * frame_width, (column - 1) * frame_height,
                 frame_width, frame_height)]]

get_image(fs, name, kind, frame_height, frame_width) ==
    LET path == <<"/", name, "-", kind, ".png">>
    IN IF ~FileExists(fs, path) THEN Err(VfsError(path))
       ELSE IF ReadFile(fs, path).type # "png" THEN Err(ErrorImageRead(kind, name))
       ELSE LET img == ReadFile(fs, path).image
                nb_on_width == get_number_of_component_on_axis(
                                   img.width, frame_width, "width", name, kind)
                nb_on_height == get_number_of_component_on_axis(
                                   img.height, frame_height, "height", name, kind)
            IN IF ~IsOk(nb_on_width) THEN nb_on_width
               ELSE IF ~IsOk(nb_on_height) THEN nb_on_height
               ELSE Ok(slice_grid(img, nb_on_width.val, nb_on_height.val,
                                  frame_height, frame_width))

(***************************************************************************)
(* Marker codec, decode side                                               *)
(***************************************************************************)
\* The closures from_images passes as `filter`, each named by its color_text.
Matches(filter, p) ==
    CASE filter = "is_black" -> p = Rgba(0, 0, 0, 255)
      [] filter = "is_red" -> p[1] = 255 /\ p[4] = 255
      [] filter = "is_green" -> p[2] = 255 /\ p[4] = 255
      [] filter = "is_blue" -> p[3] = 255 /\ p[4] = 255
      [] filter = "is_white" -> p = Rgba(255, 255, 255, 255)

\* Mutant: a second matching pixel replaces the first instead of failing.
find_pixel_in_image_last_wins(image, filter, anim_name, column_nb, row_nb, image_kind, color_text) ==
    LET matches == {p \in (0..(image.width - 1)) \X (0..(image.height - 1)) :
                       Matches(filter, get_pixel(image, p[1], p[2]))}
        r == CHOOSE p \in matches :
                 \A q \in matches : q[2] < p[2] \/ (q[2] = p[2] /\ q[1] <= p[1])
    IN IF matches = {}
       THEN Err(ColorNotFoundInPixelData(anim_name, column_nb, row_nb, image_kind,
                                         color_text))
       ELSE IF r[1] > U16Max \/ r[2] > U16Max THEN Err(OffsetTooLarge) ELSE Ok(r)

\* The scan of enumerate_pixels() visits every coordinate of the buffer once:
\* a second match ends it with ColorDuplicateInPixelDate, so it ends with
\* Some((x, y)) exactly when one coordinate matches.  The try_into of the
\* coordinate to u16 follows.
find_pixel_in_image(image, filter, anim_name, column_nb, row_nb, image_kind, color_text) ==
    LET matches == {p \in (0..(image.width - 1)) \X (0..(image.height - 1)) :
                       Matches(filter, get_pixel(image, p[1], p[2]))}
        r == CHOOSE p \in matches : TRUE
    IN IF Cardinality(matches) > 1
       THEN Err(ColorDuplicateInPixelDate(anim_name, column_nb, row_nb, image_kind,
                                          color_text))
       ELSE IF matches = {}
       THEN Err(ColorNotFoundInPixelData(anim_name, column_nb, row_nb, image_kind,
                                         color_text))
       ELSE IF r[1] > U16Max \/ r[2] > U16Max THEN Err(OffsetTooLarge) ELSE Ok(r)

FrameOffset(head, hand_left, hand_right, center, shadow) ==
    [head |-> head, hand_left |-> hand_left, hand_right |-> hand_right,
     center |-> center, shadow |-> shadow]

from_images(offset_image, shadow_image, column_nb, row_nb, animation_name) ==
    LET black_offset == find_pixel_in_image(offset_image, "is_black", animation_name,
                                            column_nb, row_nb, "offsets", "black")
        red_offset == find_pixel_in_image(offset_image, "is_red", animation_name,
                                          column_nb, row_nb, "offsets", "red")
        green_offset == find_pixel_in_image(offset_image, "is_green", animation_name,
                                            column_nb, row_nb, "offsets", "green")
        blue_offset == find_pixel_in_image(offset_image, "is_blue", animation_name,
                                           column_nb, row_nb, "offsets", "blue")
        shadow_center == find_pixel_in_image(shadow_image, "is_white", animation_name,
                                             column_nb, row_nb, "shadows", "white")
    IN IF ~IsOk(black_offset) /\ ~IsErr(black_offset, "ColorNotFoundInPixelData")
       THEN black_offset
       ELSE IF ~IsOk(red_offset) THEN red_offset
       ELSE IF ~IsOk(green_offset) THEN green_offset
       ELSE IF ~IsOk(blue_offset) THEN blue_offset
       ELSE IF ~IsOk(shadow_center) THEN shadow_center
       ELSE Ok(FrameOffset(IF IsOk(black_offset) THEN black_offset.val
                           ELSE green_offset.val,
                           red_offset.val, blue_offset.val, green_offset.val,
                           shadow_center.val))

(***************************************************************************)
(* u32 arithmetic.  An overflowing + or * traps (a panic) in a build with  *)
(* overflow checks and wraps in a build without: overflow_checks tells     *)
(* which build runs.                                                       *)
(***************************************************************************)
AddOverflows(a, b) == a > U32Max - b
AddWrap(a, b) == IF AddOverflows(a, b) THEN a - (U32Max - b) - 1 ELSE a + b
MulOverflows(a, n) == n # 0 /\ a > U32Max \div n
RECURSIVE MulWrap(_, _)
MulWrap(a, n) ==
    IF n = 0 THEN 0
    ELSE LET twice == AddWrap(MulWrap(a, n \div 2), MulWrap(a, n \div 2))
         IN IF n % 2 = 1 THEN AddWrap(twice, a) ELSE twice

add_u32(a, b, overflow_checks) ==
    IF AddOverflows(a, b) /\ overflow_checks
    THEN Panic("attempt to add with overflow")
    ELSE Ok(AddWrap(a, b))

mul_u32(a, n, overflow_checks) ==
    IF MulOverflows(a, n) /\ overflow_checks
    THEN Panic("attempt to multiply with overflow")
    ELSE Ok(MulWrap(a, n))

\* TryInto::<u32>::try_into of a usize count.
try_into_u32(n) == IF n > U32Max THEN Err(TooLargeGeneratedSheet) ELSE Ok(n)

(***************************************************************************)
(* The in-memory model                                                     *)
(***************************************************************************)
None == [some |-> FALSE]
Some(v) == [some |-> TRUE, val |-> v]
Frame(duration, image, offsets) ==
    [duration |-> duration, image |-> image, offsets |-> offsets]
Animation(name, index, rush_frame, hit_frame, return_frame, images) ==
    [name |-> name, index |-> index, rush_frame |-> rush_frame,
     hit_frame |-> hit_frame, return_frame |-> return_frame, images |-> images]
Sprite(shadow_size, animations) ==
    [shadow_size |-> shadow_size, animations |-> animations]

Max2(a, b) == IF a >= b THEN a ELSE b

(***************************************************************************)
(* Sheet packer: Animation::generate_sheet                                 *)
(***************************************************************************)
\* Mutant: the cell only grows to the coordinate, not to coordinate + 1.
max_size_offset_no_plus_one(first, offset) ==
    <<Max2(first[1], offset[1]), Max2(first[2], offset[2])>>

max_size_offset(first, offset) ==
    <<Max2(first[1], offset[1] + 1), Max2(first[2], offset[2] + 1)>>

\* The body of the inner loop of the first pass, for one frame.
grow_max_size(max_size, row) ==
    LET by_image == <<Max2(max_size[1], row.image.width),
                      Max2(max_size[2], row.image.height)>>
        by_center == max_size_offset(by_image, row.offsets.center)
        by_hand_left == max_size_offset(by_center, row.offsets.hand_left)
        by_hand_right == max_size_offset(by_hand_left, row.offsets.hand_right)
        by_head == max_size_offset(by_hand_right, row.offsets.head)
    IN max_size_offset(by_head, row.offsets.shadow)

RECURSIVE grow_over_line(_, _, _)
grow_over_line(max_size, line, k) ==
    IF k > Len(line) THEN max_size
    ELSE grow_over_line(grow_max_size(max_size, line[k]), line, k + 1)

\* The first pass: <<max_size, max_row>> after the lines from k on.
RECURSIVE first_pass(_, _, _, _)
first_pass(max_size, max_row, images, k) ==
    IF k > Len(images) THEN <<max_size, max_row>>
    ELSE first_pass(grow_over_line(max_size, images[k], 1),
                    Max2(max_row, Len(images[k])), images, k + 1)

\* Mutant: the longest line is looked for from the length of an empty line,
\* not from 1.
initial_max_row_zero == Len(<<>>)

initial_max_row == 1

\* The pixel with the channels of `channels` (a function from channel numbers
\* 1..4, for R, G, B, A, to values) assigned; a whole Rgba assigns the four.
assign_channels(pixel, channels) ==
    LET channel(c) == IF c \in DOMAIN channels THEN channels[c] ELSE pixel[c]
    IN <<channel(1), channel(2), channel(3), channel(4)>>

\* put_pixel / get_pixel_mut at (start_x + offset.0 as u32, start_y + offset.1
\* as u32): the two sums, then the bounds check of the buffer, then the write.
write_marker(image, start_x, start_y, offset, channels, overflow_checks) ==
    LET x == add_u32(start_x, offset[1], overflow_checks)
        y == add_u32(start_y, offset[2], overflow_checks)
    IN IF ~IsOk(x) THEN x
       ELSE IF ~IsOk(y) THEN y
       ELSE IF ~InBounds(image, x.val, y.val) THEN Panic("Image index out of bounds")
       ELSE Ok(put_pixel(image, x.val, y.val,
                         assign_channels(get_pixel(image, x.val, y.val), channels)))

\* anim_image.copy_from(&row.image, start_x, start_y).unwrap(): copy_from
\* returns an error, which unwrap turns into a panic, when
\* self.width() < other.width() + x or self.height() < other.height() + y.
\* When a wrapped sum lets the test pass, the copy runs into the edge of the
\* buffer, where put_pixel panics, unless other holds no pixel at all.
copy_from_unwrap(image, other, x, y, overflow_checks) ==
    LET right == add_u32(other.width, x, overflow_checks)
        bottom == add_u32(other.height, y, overflow_checks)
    IN IF ~IsOk(right) THEN right
       ELSE IF ~IsOk(bottom) THEN bottom
       ELSE IF image.width < right.val \/ image.height < bottom.val
       THEN Panic("unwrap on Err")
       ELSE IF AddOverflows(other.width, x) \/ AddOverflows(other.height, y)
       THEN IF other.width > 0 /\ other.height > 0
            THEN Panic("Image index out of bounds")
            ELSE Ok(image)
       ELSE Ok(copy_from(image, other, x, y))

\* Mutant: only the collision of head with hand_left is looked for.
head_collides_left_only(offsets) == offsets.head = offsets.hand_left

head_collides(offsets) ==
    offsets.head = offsets.hand_left \/ offsets.head = offsets.hand_right

Running(anim_image, offset_images, shadow_image, start_x, start_y) ==
    [out |-> NoRet, anim_image |-> anim_image, offset_images |-> offset_images,
     shadow_image |-> shadow_image, start_x |-> start_x, start_y |-> start_y]
Stopped(st, out) == [st EXCEPT !.out = out]

\* The body of the inner loop of the second pass, for one frame.
pack_frame(st, row, max_size, overflow_checks) ==
    LET copied == copy_from_unwrap(st.anim_image, row.image, st.start_x,
                                   st.start_y, overflow_checks)
        shadowed == write_marker(st.shadow_image, st.start_x, st.start_y,
                                 row.offsets.shadow, Rgba(255, 255, 255, 255),
                                 overflow_checks)
        head == write_marker(st.offset_images, st.start_x, st.start_y,
                             row.offsets.head, Rgba(0, 0, 0, 255), overflow_checks)
        center == write_marker(head.val, st.start_x, st.start_y,
                               row.offsets.center, (2 :> 255) @@ (4 :> 255),
                               overflow_checks)
        hand_right == write_marker(center.val, st.start_x, st.start_y,
                                   row.offsets.hand_right, (3 :> 255) @@ (4 :> 255),
                                   overflow_checks)
        hand_left == write_marker(hand_right.val, st.start_x, st.start_y,
                                  row.offsets.hand_left, (1 :> 255) @@ (4 :> 255),
                                  overflow_checks)
        next_x == add_u32(st.start_x, max_size[1], overflow_checks)
    IN IF ~IsOk(copied) THEN Stopped(st, copied)
       ELSE IF ~IsOk(shadowed) THEN Stopped(st, shadowed)
       ELSE IF head_collides(row.offsets) THEN Stopped(st, Err(InvalidHeadPosition))
       ELSE IF ~IsOk(head) THEN Stopped(st, head)
       ELSE IF ~IsOk(center) THEN Stopped(st, center)
       ELSE IF ~IsOk(hand_right) THEN Stopped(st, hand_right)
       ELSE IF ~IsOk(hand_left) THEN Stopped(st, hand_left)
       ELSE IF ~IsOk(next_x) THEN Stopped(st, next_x)
       ELSE Running(copied.val, hand_left.val, shadowed.val, next_x.val, st.start_y)

RECURSIVE pack_line(_, _, _, _, _)
pack_line(st, line, k, max_size, overflow_checks) ==
    IF st.out # NoRet \/ k > Len(line) THEN st
    ELSE pack_line(pack_frame(st, line[k], max_size, overflow_checks), line, k + 1,
                   max_size, overflow_checks)

\* The second pass: the lines from k on, then start_x = 0; start_y += max_size.1.
RECURSIVE second_pass(_, _, _, _, _)
second_pass(st, images, k, max_size, overflow_checks) ==
    IF st.out # NoRet \/ k > Len(images) THEN st
    ELSE LET packed == pack_line(st, images[k], 1, max_size, overflow_checks)
             next_y == add_u32(packed.start_y, max_size[2], overflow_checks)
         IN IF packed.out # NoRet THEN packed
            ELSE IF ~IsOk(next_y) THEN Stopped(packed, next_y)
            ELSE second_pass([packed EXCEPT !.start_x = 0, !.start_y = next_y.val],
                             images, k + 1, max_size, overflow_checks)

generate_sheet(self, overflow_checks) ==
    LET first == first_pass(<<MinCell, MinCell>>, initial_max_row, self.images, 1)
        max_size == first[1]
        max_row == first[2]
        columns == try_into_u32(max_row)
        width == mul_u32(max_size[1], columns.val, overflow_checks)
        lines == try_into_u32(Len(self.images))
        height == mul_u32(max_size[2], lines.val, overflow_checks)
        packed == second_pass(Running(RgbaU8_new(width.val, height.val),
                                      RgbaU8_new(width.val, height.val),
                                      RgbaU8_new(width.val, height.val), 0, 0),
                              self.images, 1, max_size, overflow_checks)
    IN IF ~IsOk(columns) THEN columns
       ELSE IF ~IsOk(width) THEN width
       ELSE IF ~IsOk(lines) THEN lines
       ELSE IF ~IsOk(height) THEN height
       ELSE IF packed.out # NoRet THEN packed.out
       ELSE Ok([segment_size |-> max_size, anim_img |-> packed.anim_image,
                offset_img |-> packed.offset_images,
                shadow_img |-> packed.shadow_image])

(***************************************************************************)
(* The metadata document.  quick_xml writes one element per field, named   *)
(* in PascalCase, and none for an Option that is None; reading gives None  *)
(* for an element that is absent.  A document is the function from the     *)
(* names of the elements present to their content.                         *)
(***************************************************************************)
AnimXML(name, index, rush_frame, hit_frame, return_frame, frame_width, frame_height, durations) ==
    [name |-> name, index |-> index, rush_frame |-> rush_frame,
     hit_frame |-> hit_frame, return_frame |-> return_frame,
     frame_width |-> frame_width, frame_height |-> frame_height,
     durations |-> durations]
AnimDataXML(shadow_size, anims) == [shadow_size |-> shadow_size, anims |-> anims]

NoElement == [tag \in {} |-> 0]
se_option(tag, value) == IF value.some THEN tag :> value.val ELSE NoElement
de_option(element, tag) == IF tag \in DOMAIN element THEN Some(element[tag]) ELSE None

se_anim(anim) ==
    ("Name" :> anim.name) @@ ("Index" :> anim.index)
    @@ se_option("RushFrame", anim.rush_frame)
    @@ se_option("HitFrame", anim.hit_frame)
    @@ se_option("ReturnFrame", anim.return_frame)
    @@ ("FrameWidth" :> anim.frame_width) @@ ("FrameHeight" :> anim.frame_height)
    @@ ("Durations" :> ("Duration" :> anim.durations))
de_anim(element) ==
    AnimXML(element["Name"], element["Index"], de_option(element, "RushFrame"),
            de_option(element, "HitFrame"), de_option(element, "ReturnFrame"),
            element["FrameWidth"], element["FrameHeight"],
            element["Durations"]["Duration"])

\* quick_xml::se::to_string(&animdata), as the content of a file.
XmlFile(doc) == [type |-> "xml", doc |-> doc]
to_string(animdata) ==
    XmlFile(("ShadowSize" :> animdata.shadow_size)
            @@ ("Anims" :> ("Anim" :> [k \in 1..Len(animdata.anims) |->
                                          se_anim(animdata.anims[k])])))

\* A document with a list that has no element: the reader sees no element of
\* the list's name at all.
HasEmptyList(doc) ==
    \/ doc["Anims"]["Anim"] = <<>>
    \/ \E k \in 1..Len(doc["Anims"]["Anim"]) :
          doc["Anims"]["Anim"][k]["Durations"]["Duration"] = <<>>

\* quick_xml::de::from_reader.  Whether a list without elements reads as the
\* empty Vec or as a missing field is the reader's choice: empty_list_ok.
from_reader(file, empty_list_ok) ==
    IF file.type # "xml" \/ (HasEmptyList(file.doc) /\ ~empty_list_ok)
    THEN Err(XmlReadError)
    ELSE Ok(AnimDataXML(file.doc["ShadowSize"],
                        [k \in 1..Len(file.doc["Anims"]["Anim"]) |->
                            de_anim(file.doc["Anims"]["Anim"][k])]))

(***************************************************************************)
(* Sprite assembler, decode side: Sprite::new.  A local that the code     *)
(* binds once (let x = e; ... x ... x ...) is bound once here too, as the  *)
(* x of {... x ... x ... : x \in {e}}, whose one element is the result.    *)
(***************************************************************************)
Min2(a, b) == IF a <= b THEN a ELSE b

\* Mutant: the duration of a frame is always the first of the list.
frame_duration_first(durations, row) == durations[1]

\* The duration the zip pairs with frame `row` (from 1) of a line.
frame_duration(durations, row) == durations[row]

\* The loop over the frames of one line, from frame `row` on; the zip ends
\* with the shortest of its four sequences.
RECURSIVE decode_line(_, _, _, _, _, _, _, _)
decode_line(column_anims, column_shadows, column_offsets, durations, column_nb, name, row, frames) ==
    IF row > Min2(Min2(Len(column_anims), Len(column_shadows)),
                  Min2(Len(column_offsets), Len(durations)))
    THEN Ok(frames)
    ELSE CHOOSE result \in
        {IF ~IsOk(offsets) THEN offsets
         ELSE IF frame_duration(durations, row) > U8Max THEN Err(TooLargeDuration)
         ELSE decode_line(column_anims, column_shadows, column_offsets, durations,
                          column_nb, name, row + 1,
                          Append(frames, Frame(frame_duration(durations, row),
                                               column_anims[row], offsets.val))) :
            offsets \in {from_images(column_offsets[row], column_shadows[row],
                                     column_nb, row - 1, name)}} : TRUE

\* Mutant: only the line counts of the three grids are compared.
line_sizes_differ_never(column_anims, column_shadows, column_offsets) == FALSE

line_sizes_differ(column_anims, column_shadows, column_offsets) ==
    \/ Len(column_anims) # Len(column_shadows)
    \/ Len(column_shadows) # Len(column_offsets)

duration_count_differs(column_anims, durations) == Len(column_anims) # Len(durations)

\* The loop over the lines of one animation, from line `column` (from 1) on.
RECURSIVE decode_lines(_, _, _, _, _, _)
decode_lines(anim_image, shadow_image, offset_image, anim_source, column, images) ==
    IF column > Min2(Len(anim_image), Min2(Len(shadow_image), Len(offset_image)))
    THEN Ok(images)
    ELSE IF line_sizes_differ(anim_image[column], shadow_image[column],
                              offset_image[column])
    THEN Err(SpriteSizeNotIdentical(anim_source.name))
    ELSE IF duration_count_differs(anim_image[column], anim_source.durations)
    THEN Err(InconsistantDuration(anim_source.name, Len(anim_image[column]),
                                  Len(anim_source.durations)))
    ELSE CHOOSE result \in
        {IF ~IsOk(frames) THEN frames
         ELSE decode_lines(anim_image, shadow_image, offset_image, anim_source,
                           column + 1, Append(images, frames.val)) :
            frames \in {decode_line(anim_image[column], shadow_image[column],
                                    offset_image[column], anim_source.durations,
                                    column - 1, anim_source.name, 1, <<>>)}} : TRUE

\* The body of the loop over animdata_xml.anims.anim, from the three results
\* of get_image on; `?` returns the first that is an error.
decode_grids(anim_image, shadow_image, offset_image, anim_source) ==
    IF ~IsOk(anim_image) THEN anim_image
    ELSE IF ~IsOk(shadow_image) THEN shadow_image
    ELSE IF ~IsOk(offset_image) THEN offset_image
    ELSE IF \/ Len(anim_image.val) # Len(shadow_image.val)
            \/ Len(shadow_image.val) # Len(offset_image.val)
    THEN Err(SpriteSizeNotIdentical(anim_source.name))
    ELSE CHOOSE result \in
        {IF ~IsOk(images) THEN images
         ELSE Ok(Animation(anim_source.name, anim_source.index, anim_source.rush_frame,
                           anim_source.hit_frame, anim_source.return_frame,
                           images.val)) :
            images \in {decode_lines(anim_image.val, shadow_image.val,
                                     offset_image.val, anim_source, 1, <<>>)}} : TRUE

decode_animation(fs, anim_source) ==
    CHOOSE animation \in
        {decode_grids(anim_image, shadow_image, offset_image, anim_source) :
            anim_image \in {get_image(fs, anim_source.name, "Anim",
                                      anim_source.frame_height, anim_source.frame_width)},
            shadow_image \in {get_image(fs, anim_source.name, "Shadow",
                                        anim_source.frame_height, anim_source.frame_width)},
            offset_image \in {get_image(fs, anim_source.name, "Offsets",
                                        anim_source.frame_height, anim_source.frame_width)}} :
        TRUE

RECURSIVE decode_animations(_, _, _, _)
decode_animations(fs, anims, k, animations) ==
    IF k > Len(anims) THEN Ok(animations)
    ELSE CHOOSE result \in
        {IF ~IsOk(animation) THEN animation
         ELSE decode_animations(fs, anims, k + 1, Append(animations, animation.val)) :
            animation \in {decode_animation(fs, anims[k])}} : TRUE

Sprite_new(fs, empty_list_ok) ==
    LET path == <<"/", "AnimData.xml">>
        animdata_xml == from_reader(ReadFile(fs, path), empty_list_ok)
    IN IF ~FileExists(fs, path) THEN Err(VfsError(path))
       ELSE IF ~IsOk(animdata_xml) THEN animdata_xml
       ELSE CHOOSE result \in
           {IF ~IsOk(animations) THEN animations
            ELSE Ok(Sprite(animdata_xml.val.shadow_size, animations.val)) :
               animations \in {decode_animations(fs, animdata_xml.val.anims, 1,
                                                 <<>>)}} : TRUE

(***************************************************************************)
(* Sprite assembler, encode side: Sprite::write_to_folder.  Its state is   *)
(* the storage, the paths created so far in order, the entries pushed to   *)
(* animdata and, once the call has ended early, its outcome.               *)
(***************************************************************************)
Writing(fs) == [out |-> NoRet, vfs |-> fs, created |-> <<>>, anims |-> <<>>]

\* The closure write_image.  Whether the encoder takes an image without
\* pixels is the encoder's choice: zero_area_ok.
write_image(io, image, file_name, zero_area_ok) ==
    IF io.out # NoRet THEN io
    ELSE IF (image.width = 0 \/ image.height = 0) /\ ~zero_area_ok
    THEN [io EXCEPT !.out = Err(WriteImageError(file_name))]
    ELSE [io EXCEPT !.vfs = CreateFile(io.vfs, file_name, PngFile(image)),
                    !.created = Append(io.created, file_name)]

\* animation.images.get(0).unwrap_or(&vec![]) mapped to the durations.
first_line_durations(animation) ==
    IF animation.images = <<>> THEN <<>>
    ELSE [k \in 1..Len(animation.images[1]) |-> animation.images[1][k].duration]

\* Mutant: the Offsets sheet is written before the Anim sheet.
write_sheets_offsets_first(io, sheet, animation, zero_area_ok) ==
    LET offsets_written == write_image(io, sheet.val.offset_img,
                                       <<animation.name, "-", "Offsets", ".png">>,
                                       zero_area_ok)
        anim_written == write_image(offsets_written, sheet.val.anim_img,
                                    <<animation.name, "-", "Anim", ".png">>,
                                    zero_area_ok)
        shadow_written == write_image(anim_written, sheet.val.shadow_img,
                                      <<animation.name, "-", "Shadow", ".png">>,
                                      zero_area_ok)
    IN IF ~IsOk(sheet) THEN [io EXCEPT !.out = sheet]
       ELSE IF shadow_written.out # NoRet THEN shadow_written
       ELSE [shadow_written EXCEPT !.anims =
                Append(shadow_written.anims,
                       AnimXML(animation.name, animation.index, animation.rush_frame,
                               animation.hit_frame, animation.return_frame,
                               sheet.val.segment_size[1], sheet.val.segment_size[2],
                               first_line_durations(animation)))]

\* The body of the loop over self.animations, from the result of
\* generate_sheet on.
write_sheets(io, sheet, animation, zero_area_ok) ==
    LET anim_written == write_image(io, sheet.val.anim_img,
                                    <<animation.name, "-", "Anim", ".png">>,
                                    zero_area_ok)
        offsets_written == write_image(anim_written, sheet.val.offset_img,
                                       <<animation.name, "-", "Offsets", ".png">>,
                                       zero_area_ok)
        shadow_written == write_image(offsets_written, sheet.val.shadow_img,
                                      <<animation.name, "-", "Shadow", ".png">>,
                                      zero_area_ok)
    IN IF ~IsOk(sheet) THEN [io EXCEPT !.out = sheet]
       ELSE IF shadow_written.out # NoRet THEN shadow_written
       ELSE [shadow_written EXCEPT !.anims =
                Append(shadow_written.anims,
                       AnimXML(animation.name, animation.index, animation.rush_frame,
                               animation.hit_frame, animation.return_frame,
                               sheet.val.segment_size[1], sheet.val.segment_size[2],
                               first_line_durations(animation)))]

write_animation(io, animation, overflow_checks, zero_area_ok) ==
    CHOOSE written \in {write_sheets(io, sheet, animation, zero_area_ok) :
                           sheet \in {generate_sheet(animation, overflow_checks)}} :
        TRUE

\* The loop over self.animations, from animation k on.
RECURSIVE write_animations(_, _, _, _, _)
write_animations(io, animations, k, overflow_checks, zero_area_ok) ==
    IF io.out # NoRet \/ k > Len(animations) THEN io
    ELSE CHOOSE written \in
             {write_animations(next, animations, k + 1, overflow_checks, zero_area_ok) :
                 next \in {write_animation(io, animations[k], overflow_checks,
                                           zero_area_ok)}} :
             TRUE

write_to_folder(self, fs, overflow_checks, zero_area_ok) ==
    CHOOSE result \in
        {IF io.out # NoRet THEN io
         ELSE [io EXCEPT
                  !.out = Ok(<<>>),
                  !.vfs = CreateFile(io.vfs, <<"AnimData.xml">>,
                                     to_string(AnimDataXML(self.shadow_size, io.anims))),
                  !.created = Append(io.created, <<"AnimData.xml">>)] :
            io \in {write_animations(Writing(fs), self.animations, 1, overflow_checks,
                                     zero_area_ok)}} : TRUE

(***************************************************************************)
(* Specification of the slicer: a sheet in the storage, one call.          *)
(***************************************************************************)
MaxSheetSide == 4
MaxCellSide == 3

\* Test sheets: every pixel tells its own coordinate (pattern 0 and 1), or
\* only the pixels of even x + y do and the rest is (0,0,0,0) (pattern 2).
PatternSheet(w, h, pattern) ==
    LET dom == {p \in (0..(w - 1)) \X (0..(h - 1)) :
                   pattern # 2 \/ (p[1] + p[2]) % 2 = 0}
    IN [width |-> w, height |-> h,
        data |-> [p \in dom |->
                    Rgba(p[1] + 1, p[2] + 1, IF pattern = 1 THEN 255 ELSE 0, 255)]]

SheetKinds == {"Anim", "Shadow", "Offsets"}

InitSlice ==
    /\ pc = "slice"
    /\ sprite = NoRet
    /\ ret = NoRet
    /\ \E w \in 1..MaxSheetSide, h \in 1..MaxSheetSide,
          cw \in 0..MaxCellSide, ch \in 0..MaxCellSide,
          pattern \in 0..2, stored \in {"png", "other", "missing"} :
        /\ stored # "png" => (w = 1 /\ h = 1 /\ pattern = 0)
        /\ call = [op |-> "get_image", name |-> "Walk", kind |-> "Anim",
                   frame_height |-> ch, frame_width |-> cw]
        /\ vfs = CASE stored = "png" ->
                        CreateFile(NoFiles, <<"Walk", "-", "Anim", ".png">>,
                                   PngFile(PatternSheet(w, h, pattern)))
                   [] stored = "other" ->
                        CreateFile(NoFiles, <<"Walk", "-", "Anim", ".png">>, OtherFile)
                   [] OTHER -> NoFiles

GetImage ==
    /\ pc = "slice"
    /\ ret' = get_image(vfs, call.name, call.kind, call.frame_height, call.frame_width)
    /\ pc' = "done"
    /\ UNCHANGED <<sprite, vfs, call>>

NextSlice == GetImage

SpecSlice == InitSlice /\ [][NextSlice]_vars

(***************************************************************************)
(* Specification of the marker decode: an offsets and a shadow sub-image   *)
(* of the same size (Sprite::new cuts both with one cell size), one call.  *)
(***************************************************************************)
MaxMarkerPixels == 3

OffsetsPalette ==
    {Transparent, Rgba(0, 0, 0, 255), Rgba(255, 0, 0, 255), Rgba(0, 255, 0, 255),
     Rgba(0, 0, 255, 255), Rgba(255, 255, 255, 255), Rgba(255, 255, 0, 0)}
ShadowPalette == {Transparent, Rgba(255, 255, 255, 255), Rgba(255, 255, 255, 254)}

\* The buffer of size (w, h) whose pixels are given by f.
BufferOf(w, h, f) ==
    [width |-> w, height |-> h,
     data |-> [p \in {q \in DOMAIN f : f[q] # Transparent} |-> f[p]]]

\* The buffer of size (w, h) holding the given pixels, (0,0,0,0) elsewhere.
Stamped(w, h, stamps) ==
    [width |-> w, height |-> h,
     data |-> [p \in {s[1] : s \in stamps} |->
                  (CHOOSE s \in stamps : s[1] = p)[2]]]

\* Sub-images one pixel wider (or taller) than a u16 coordinate can tell.
LongSide == U16Max + 2
Along(tall, k) == IF tall THEN <<0, k>> ELSE <<k, 0>>

InitMarker ==
    /\ pc = "marker"
    /\ sprite = NoRet
    /\ vfs = NoFiles
    /\ ret = NoRet
    /\ \/ \E w \in 1..MaxMarkerPixels, h \in 1..MaxMarkerPixels :
            /\ w * h <= MaxMarkerPixels
            /\ \E f \in [(0..(w - 1)) \X (0..(h - 1)) -> OffsetsPalette],
                  g \in [(0..(w - 1)) \X (0..(h - 1)) -> ShadowPalette] :
                 call = [op |-> "from_images", offset_image |-> BufferOf(w, h, f),
                         shadow_image |-> BufferOf(w, h, g),
                         column_nb |-> 1, row_nb |-> 0, animation_name |-> "Walk"]
       \/ \E tall \in BOOLEAN, red \in {0, LongSide - 1},
             black \in {-1, 3, LongSide - 1}, white \in {0, LongSide - 1} :
            /\ black # red
            /\ call = [op |-> "from_images",
                    offset_image |->
                        Stamped(IF tall THEN 1 ELSE LongSide,
                                IF tall THEN LongSide ELSE 1,
                                {<<Along(tall, red), Rgba(255, 0, 0, 255)>>,
                                 <<Along(tall, 1), Rgba(0, 255, 0, 255)>>,
                                 <<Along(tall, 2), Rgba(0, 0, 255, 255)>>}
                                \cup (IF black < 0 THEN {}
                                      ELSE {<<Along(tall, black),
                                              Rgba(0, 0, 0, 255)>>})),
                    shadow_image |->
                        Stamped(IF tall THEN 1 ELSE LongSide,
                                IF tall THEN LongSide ELSE 1,
                                {<<Along(tall, white), Rgba(255, 255, 255, 255)>>}),
                    column_nb |-> 0, row_nb |-> 2, animation_name |-> "Idle"]

FromImages ==
    /\ pc = "marker"
    /\ ret' = from_images(call.offset_image, call.shadow_image, call.column_nb,
                          call.row_nb, call.animation_name)
    /\ pc' = "done"
    /\ UNCHANGED <<sprite, vfs, call>>

NextMarker == FromImages

SpecMarker == InitMarker /\ [][NextMarker]_vars

(***************************************************************************)
(* Specification of the packer: an animation, one call of generate_sheet   *)
(* in a build with or without overflow checks.                             *)
(***************************************************************************)
MaxLines == 3
MaxFrames == 2

\* Frame images: no pixel at all; one pixel; smaller than the floor of the
\* cell; larger than it; and two whose side is more than half the u32 range.
EmptyImage == RgbaU8_new(0, 0)
DotImage == Stamped(1, 1, {<<<<0, 0>>, Rgba(255, 0, 0, 255)>>})
SmallImage ==
    Stamped(3, 2, {<<<<0, 0>>, Rgba(10, 20, 30, 255)>>,
                   <<<<2, 1>>, Rgba(0, 0, 0, 255)>>,
                   <<<<1, 1>>, Rgba(255, 255, 255, 128)>>})
LargeImage ==
    Stamped(10, 9, {<<<<9, 8>>, Rgba(1, 2, 3, 4)>>, <<<<0, 8>>, Rgba(0, 255, 0, 255)>>})
HalfRange == U32Max \div 2 + 1
TallImage == Stamped(1, HalfRange + 8, {<<<<0, HalfRange + 7>>, Rgba(9, 9, 9, 255)>>})
WideImage == Stamped(HalfRange, 1, {<<<<HalfRange - 1, 0>>, Rgba(9, 9, 9, 255)>>})

Coords == {<<0, 0>>, <<1, 0>>, <<9, 11>>}

\* The two frames that fill the lines of the longer animations.
FrameP ==
    Frame(1, SmallImage, FrameOffset(<<0, 0>>, <<1, 0>>, <<2, 0>>, <<3, 1>>, <<4, 7>>))
FrameQ ==
    Frame(2, LargeImage, FrameOffset(<<5, 5>>, <<0, 3>>, <<5, 6>>, <<5, 5>>, <<12, 0>>))
FrameTall ==
    Frame(3, TallImage, FrameOffset(<<0, 0>>, <<1, 0>>, <<2, 0>>, <<3, 1>>, <<4, 7>>))
FrameWide ==
    Frame(3, WideImage, FrameOffset(<<0, 0>>, <<1, 0>>, <<2, 0>>, <<3, 1>>, <<4, 7>>))

\* The sequences over S of length at most n.
SeqUpTo(S, n) == UNION {[1..k -> S] : k \in 0..n}

\* The lines of lengths `shape` filled with P and Q: all P (fill 0), all Q
\* (fill 1), P and Q alternating along each line (fill 2), or along the lines
\* and the columns (fill 3).
Fill(shape, fill) ==
    [l \in 1..Len(shape) |->
        [k \in 1..shape[l] |->
            CASE fill = 0 -> FrameP
              [] fill = 1 -> FrameQ
              [] fill = 2 -> IF k % 2 = 1 THEN FrameP ELSE FrameQ
              [] fill = 3 -> IF (l + k) % 2 = 0 THEN FrameP ELSE FrameQ]]

\* Animations of at most MaxLines lines of at most MaxFrames frames each.
GridsOfFrames ==
    {Fill(shape, fill) : shape \in SeqUpTo(0..MaxFrames, MaxLines), fill \in 0..3}

\* A one-frame animation whose five offsets range over Coords.
SingleFrames(Images) ==
    {<<<<Frame(1, image, FrameOffset(head, hand_left, hand_right, center, shadow))>>>> :
        image \in Images,
        head \in Coords, hand_left \in Coords, hand_right \in Coords,
        center \in Coords \cup {<<U16Max, 2>>}, shadow \in Coords}

\* images with its first frame, when it has one, replaced by frame.
WithFirstFrame(images, frame) ==
    IF images # <<>> /\ images[1] # <<>>
    THEN [images EXCEPT ![1][1] = frame]
    ELSE images

PackInputs ==
    GridsOfFrames
    \cup SingleFrames({EmptyImage, DotImage, LargeImage})
    \cup {WithFirstFrame(images, frame) :
            images \in GridsOfFrames, frame \in {FrameTall, FrameWide}}

InitPack ==
    /\ pc = "pack"
    /\ sprite = NoRet
    /\ vfs = NoFiles
    /\ ret = NoRet
    /\ \E images \in PackInputs :
         call = [op |-> "generate_sheet", overflow_checks |-> FALSE,
                 self |-> Animation("Walk", 0, None, None, None, images)]

GenerateSheet ==
    /\ pc = "pack"
    /\ \E overflow_checks \in BOOLEAN :
         /\ ret' = generate_sheet(call.self, overflow_checks)
         /\ call' = [call EXCEPT !.overflow_checks = overflow_checks]
    /\ pc' = "done"
    /\ UNCHANGED <<sprite, vfs>>

NextPack == GenerateSheet

SpecPack == InitPack /\ [][NextPack]_vars

(***************************************************************************)
(* Specification of the decoder: a folder holding AnimData.xml and the     *)
(* sheets of its animations, one call of Sprite::new.                      *)
(***************************************************************************)
MaxDecodeLines == 2
MaxDecodeFrames == 2
BaseCell == 2

Red == Rgba(255, 0, 0, 255)
Green == Rgba(0, 255, 0, 255)
Blue == Rgba(0, 0, 255, 255)
Black == Rgba(0, 0, 0, 255)
White == Rgba(255, 255, 255, 255)

\* What a sheet of `kind` holds in the BaseCell x BaseCell cell of frame f of
\* line l (both from 0): the frame's own colour; the white marker; or the
\* red, green and blue markers and, in every other cell, the black one.
CellStamps(kind, f, l) ==
    CASE kind = "Anim" -> {<<<<0, 0>>, Rgba(f + 1, l + 1, 7, 255)>>}
      [] kind = "Shadow" -> {<<<<1, 0>>, White>>}
      [] kind = "Offsets" ->
            {<<<<0, 0>>, Red>>, <<<<1, 0>>, Green>>, <<<<0, 1>>, Blue>>}
            \cup (IF (f + l) % 2 = 0 THEN {<<<<1, 1>>, Black>>} ELSE {})

\* A sheet of `lines` lines of `frames` such cells; with blank_last, its
\* last cell holds nothing.
MarkedSheet(kind, frames, lines, blank_last) ==
    LET cells == {c \in (0..(frames - 1)) \X (0..(lines - 1)) :
                     ~(blank_last /\ c = <<frames - 1, lines - 1>>)}
    IN Stamped(BaseCell * frames, BaseCell * lines,
               UNION {{<<<<c[1] * BaseCell + st[1][1], c[2] * BaseCell + st[1][2]>>,
                         st[2]>> : st \in CellStamps(kind, c[1], c[2])} :
                      c \in cells})

\* The three sheets of animation `name`, of the given <<frames, lines>>.
SheetFiles(name, anim_dims, shadow_dims, offsets_dims, blank_last) ==
    (<<name, "-", "Anim", ".png">> :>
        PngFile(MarkedSheet("Anim", anim_dims[1], anim_dims[2], FALSE)))
    @@ (<<name, "-", "Shadow", ".png">> :>
        PngFile(MarkedSheet("Shadow", shadow_dims[1], shadow_dims[2], FALSE)))
    @@ (<<name, "-", "Offsets", ".png">> :>
        PngFile(MarkedSheet("Offsets", offsets_dims[1], offsets_dims[2], blank_last)))

\* n durations, all different; with big, the last one is more than a u8 holds.
DurationList(n, big) == [i \in 1..n |-> IF big /\ i = n THEN U8Max + 1 ELSE 10 * i]

\* An animation that decodes: one line of one frame.
IdleXML == AnimXML("Idle", 7, None, Some(3), None, BaseCell, BaseCell, <<5>>)
IdleFiles == SheetFiles("Idle", <<1, 1>>, <<1, 1>>, <<1, 1>>, FALSE)

DecodeDims == (1..MaxDecodeFrames) \X (1..MaxDecodeLines)
DecodeCells == {<<BaseCell, BaseCell>>, <<2 * BaseCell, BaseCell>>,
                <<BaseCell, 2 * BaseCell>>}

\* The folder of scenario 1 (Walk alone), 2 (Walk alone, the last cell of its
\* Offsets sheet blank), 3 (Idle, then Walk) or 4 (Walk, then Idle).
DecodeFolder(scenario, anim_dims, shadow_dims, offsets_dims, cell, durations) ==
    LET walk == AnimXML("Walk", 0, IF scenario = 2 THEN Some(1) ELSE None, None,
                        Some(2), cell[1], cell[2], durations)
        anims == CASE scenario = 3 -> <<IdleXML, walk>>
                   [] scenario = 4 -> <<walk, IdleXML>>
                   [] OTHER -> <<walk>>
    IN (<<"AnimData.xml">> :> to_string(AnimDataXML(4, anims)))
       @@ SheetFiles("Walk", anim_dims, shadow_dims, offsets_dims, scenario = 2)
       @@ (IF scenario \in {3, 4} THEN IdleFiles ELSE NoFiles)

InitDecode ==
    /\ pc = "decode"
    /\ sprite = NoRet
    /\ ret = NoRet
    /\ call = [op |-> "new", empty_list_ok |-> FALSE, written |-> NoRet]
    /\ \E scenario \in 1..4, anim_dims \in DecodeDims, shadow_dims \in DecodeDims,
          offsets_dims \in DecodeDims, cell \in DecodeCells,
          n \in 0..(MaxDecodeFrames + 1), big \in BOOLEAN :
         /\ big => n > 0
         /\ vfs = DecodeFolder(scenario, anim_dims, shadow_dims, offsets_dims, cell,
                               DurationList(n, big))

New ==
    /\ pc = "decode"
    /\ \E empty_list_ok \in BOOLEAN :
         /\ ret' = Sprite_new(vfs, empty_list_ok)
         /\ call' = [call EXCEPT !.empty_list_ok = empty_list_ok]
    /\ pc' = "done"
    /\ UNCHANGED <<sprite, vfs>>

NextDecode == New

SpecDecode == InitDecode /\ [][NextDecode]_vars

(***************************************************************************)
(* Specification of the round trip: a Sprite, one call of write_to_folder  *)
(* on an empty folder and, when it returned Ok, one call of Sprite::new on *)
(* the folder it left.                                                     *)
(***************************************************************************)
\* An image of exactly the floor of the cell.
CellImage ==
    Stamped(MinCell, MinCell, {<<<<0, 0>>, Rgba(10, 20, 30, 255)>>,
                               <<<<MinCell - 1, MinCell - 1>>, Rgba(255, 255, 255, 255)>>,
                               <<<<3, 4>>, Rgba(0, 0, 0, 128)>>})

\* A one-frame animation whose five offsets range over Coords.
CellFrames ==
    {<<<<Frame(1, CellImage, FrameOffset(head, hand_left, hand_right, center, shadow))>>>> :
        head \in Coords, hand_left \in Coords, hand_right \in Coords,
        center \in Coords, shadow \in Coords}

\* The animations of at least one line, so that every sheet has pixels.
RoundTripGrids == {images \in GridsOfFrames : images # <<>>}

RoundTripImages == RoundTripGrids \cup CellFrames

Walk(images) == Animation("Walk", 0, None, Some(2), None, images)

\* One animation; two animations of different names; two of the same name.
RoundTripSprites ==
    {Sprite(3, <<Walk(images)>>) : images \in RoundTripImages}
    \cup {Sprite(3, <<Walk(images), Animation(name, 1, Some(0), None, Some(1),
                                               <<<<FrameQ>>>>)>>) :
            images \in RoundTripGrids, name \in {"Idle", "Walk"}}

InitRoundTrip ==
    /\ pc = "encode"
    /\ vfs = NoFiles
    /\ ret = NoRet
    /\ call = [op |-> "write_to_folder", overflow_checks |-> FALSE,
               zero_area_ok |-> FALSE, empty_list_ok |-> FALSE,
               written |-> NoRet, created |-> <<>>]
    /\ sprite \in RoundTripSprites

WriteToFolder ==
    /\ pc = "encode"
    /\ \E overflow_checks \in BOOLEAN, zero_area_ok \in BOOLEAN :
         \E io \in {write_to_folder(sprite, vfs, overflow_checks, zero_area_ok)} :
            /\ vfs' = io.vfs
            /\ call' = [call EXCEPT !.overflow_checks = overflow_checks,
                                    !.zero_area_ok = zero_area_ok,
                                    !.written = io.out,
                                    !.created = io.created]
            /\ pc' = IF IsOk(io.out) THEN "decode" ELSE "done"
            /\ ret' = IF IsOk(io.out) THEN NoRet ELSE io.out
    /\ UNCHANGED sprite

NextRoundTrip == WriteToFolder \/ New

SpecRoundTrip == InitRoundTrip /\ [][NextRoundTrip]_vars

(***************************************************************************)
(* Specification of the encoder: a Sprite of several animations, some of   *)
(* which do not pack, and one call of write_to_folder on a folder that is  *)
(* empty or holds the files of an earlier sprite.                          *)
(***************************************************************************)
MaxAnimations == 3

\* A frame whose head is on its left hand.
FrameHeadOnHand ==
    Frame(4, CellImage, FrameOffset(<<1, 0>>, <<1, 0>>, <<2, 0>>, <<3, 1>>, <<4, 7>>))

\* Animations that pack (the first two), that fail with InvalidHeadPosition
\* on the second frame, whose sheet height does not fit a u32, and without
\* lines.
EncodeImages ==
    {<<<<FrameP>>>>, Fill(<<2, 1>>, 2), <<<<FrameQ, FrameHeadOnHand>>>>,
     <<<<FrameTall>>, <<>>>>, <<>>}

AnimationNames == <<"Walk", "Idle", "Hurt", "Sleep", "Hop">>

\* The sprites of at most MaxAnimations animations, of different names or
\* (same_name) all of one name.
EncodeSprites ==
    {Sprite(3, [k \in 1..Len(kinds) |->
                   Animation(IF same_name THEN "Walk" ELSE AnimationNames[k],
                             k, None, None, Some(k), kinds[k])]) :
        kinds \in SeqUpTo(EncodeImages, MaxAnimations), same_name \in BOOLEAN}

\* What an earlier sprite left in the folder.
StaleFolder ==
    (<<"AnimData.xml">> :> OtherFile)
    @@ (<<"Walk", "-", "Anim", ".png">> :> OtherFile)
    @@ (<<"Sleep", "-", "Shadow", ".png">> :> OtherFile)

InitEncode ==
    /\ pc = "encode"
    /\ ret = NoRet
    /\ sprite \in EncodeSprites
    /\ vfs \in {NoFiles, StaleFolder}
    /\ call = [op |-> "write_to_folder", overflow_checks |-> FALSE,
               zero_area_ok |-> FALSE, empty_list_ok |-> FALSE,
               written |-> NoRet, created |-> <<>>, before |-> vfs]

NextEncode == WriteToFolder

SpecEncode == InitEncode /\ [][NextEncode]_vars

(***************************************************************************)
(* Claims about the slicer, on the state a get_image call leaves.          *)
(***************************************************************************)
SlicedSheet == ReadFile(vfs, <<"/", call.name, "-", call.kind, ".png">>).image
SliceReturned ==
    /\ pc = "done"
    /\ call.op = "get_image"
    /\ FileExists(vfs, <<"/", call.name, "-", call.kind, ".png">>)
    /\ ReadFile(vfs, <<"/", call.name, "-", call.kind, ".png">>).type = "png"

\* The (line, index, i, j) of the returned grid that the placement "frame
\* (line, index) starts at (index * width, line * height)" puts on (x, y).
FramePixelsOn(grid, x, y) ==
    {q \in {<<line, index>> : line \in 1..Len(grid), index \in 1..MaxSheetSide} :
        /\ q[2] <= Len(grid[q[1]])
        /\ LET frame == grid[q[1]][q[2]]
           IN /\ (q[2] - 1) * frame.width <= x /\ x < q[2] * frame.width
              /\ (q[1] - 1) * frame.height <= y /\ y < q[1] * frame.height}

\* C2: with a non-zero cell dividing the sheet, get_image returns h/ch lines of
\* w/cw frames, frame (line, index) is the cw-by-ch sub-image at origin
\* (index * cw, line * ch), and every pixel of the sheet lies in exactly one frame.
C2_GridSlicingExhaustive ==
    (/\ SliceReturned
     /\ call.frame_width > 0 /\ call.frame_height > 0
     /\ SlicedSheet.width % call.frame_width = 0
     /\ SlicedSheet.height % call.frame_height = 0)
    => /\ IsOk(ret)
       /\ Len(ret.val) = SlicedSheet.height \div call.frame_height
       /\ \A line \in 1..Len(ret.val) :
            /\ Len(ret.val[line]) = SlicedSheet.width \div call.frame_width
            /\ \A index \in 1..Len(ret.val[line]) :
                 LET frame == ret.val[line][index]
                 IN /\ frame.width = call.frame_width
                    /\ frame.height = call.frame_height
                    /\ DOMAIN frame.data \subseteq
                          (0..(frame.width - 1)) \X (0..(frame.height - 1))
                    /\ \A i \in 0..(call.frame_width - 1),
                          j \in 0..(call.frame_height - 1) :
                         get_pixel(frame, i, j) =
                            get_pixel(SlicedSheet,
                                      (index - 1) * call.frame_width + i,
                                      (line - 1) * call.frame_height + j)
       /\ \A x \in 0..(SlicedSheet.width - 1), y \in 0..(SlicedSheet.height - 1) :
            Cardinality(FramePixelsOn(ret.val, x, y)) = 1

W_C2_SeveralLinesAndFrames ==
    /\ SliceReturned
    /\ IsOk(ret)
    /\ Len(ret.val) = 2
    /\ Len(ret.val[1]) = 2
    /\ call.frame_width = 2 /\ call.frame_height = 1
    /\ get_pixel(ret.val[2][2], 1, 0) = Rgba(4, 2, 255, 255)

\* C3 as claimed: a zero cell width or a zero cell height always gives SpriteSizeZero.
CE_C3_ZeroAlwaysSizeZero ==
    (SliceReturned /\ (call.frame_width = 0 \/ call.frame_height = 0))
    => IsErr(ret, "SpriteSizeZero")

\* C3 amended: a zero cell width gives SpriteSizeZero (width); a zero cell height
\* gives SpriteSizeZero (height) when the non-zero cell width divides the sheet
\* width, and SpriteSizeNotMultiple (width) when it does not: the width is
\* checked first.
C3_ZeroCellSize ==
    (SliceReturned /\ (call.frame_width = 0 \/ call.frame_height = 0))
    => IF call.frame_width = 0
       THEN ret = Err(SpriteSizeZero(call.name, call.kind, "width"))
       ELSE IF SlicedSheet.width % call.frame_width = 0
            THEN ret = Err(SpriteSizeZero(call.name, call.kind, "height"))
            ELSE ret = Err(SpriteSizeNotMultiple(call.name, call.kind, "width"))

W_C3_ZeroHeightAfterWidth ==
    /\ SliceReturned
    /\ call.frame_width = 2 /\ call.frame_height = 0
    /\ SlicedSheet.width = 4
    /\ ret = Err(SpriteSizeZero("Walk", "Anim", "height"))

(***************************************************************************)
(* Claims about the marker decode, on the state a from_images call leaves. *)
(* The markers in the order from_images looks for them.                    *)
(***************************************************************************)
MarkerReturned == pc = "done" /\ call.op = "from_images"

MarkerColor == <<"black", "red", "green", "blue", "white">>
MarkerSheet == <<"offsets", "offsets", "offsets", "offsets", "shadows">>
MarkerImage(m) == IF m = 5 THEN call.shadow_image ELSE call.offset_image
MarkerPredicate(m, p) ==
    CASE m = 1 -> p = <<0, 0, 0, 255>>
      [] m = 2 -> p[1] = 255 /\ p[4] = 255
      [] m = 3 -> p[2] = 255 /\ p[4] = 255
      [] m = 4 -> p[3] = 255 /\ p[4] = 255
      [] m = 5 -> p = <<255, 255, 255, 255>>
\* No predicate holds of (0,0,0,0): the matching pixels are among the stored ones.
MarkerMatches(m) ==
    {c \in DOMAIN MarkerImage(m).data : MarkerPredicate(m, MarkerImage(m).data[c])}
MarkerAt(m) == CHOOSE c \in MarkerMatches(m) : TRUE
MarkerCountFine(m) ==
    IF m = 1 THEN Cardinality(MarkerMatches(m)) <= 1
    ELSE Cardinality(MarkerMatches(m)) = 1
MarkerFits(m) == \A c \in MarkerMatches(m) : c[1] <= U16Max /\ c[2] <= U16Max
MarkerError(m, kind) ==
    [kind |-> kind, anim |-> call.animation_name, column |-> call.column_nb,
     row |-> call.row_nb, image |-> MarkerSheet[m], color |-> MarkerColor[m]]
MarkerDecoded ==
    FrameOffset(IF MarkerMatches(1) = {} THEN MarkerAt(3) ELSE MarkerAt(1),
                MarkerAt(2), MarkerAt(4), MarkerAt(3), MarkerAt(5))

\* C4 as claimed: a marker matched by no pixel fails with ColorNotFound naming it
\* (head excepted), one matched by several pixels fails with ColorDuplicate naming
\* it, and with every marker matched once (head at most once) the coordinates of
\* the matching pixels are returned, head falling back to center.
CE_C4_UniqueMatchReturned ==
    MarkerReturned =>
        /\ \A m \in 1..5 :
             (\A k \in 1..(m - 1) : MarkerCountFine(k)) =>
                /\ Cardinality(MarkerMatches(m)) > 1 =>
                      ret = Err(MarkerError(m, "ColorDuplicateInPixelDate"))
                /\ (m # 1 /\ MarkerMatches(m) = {}) =>
                      ret = Err(MarkerError(m, "ColorNotFoundInPixelData"))
        /\ (\A m \in 1..5 : MarkerCountFine(m)) => ret = Ok(MarkerDecoded)

\* C4 amended: the same, for the first marker (in the order black, red, green,
\* blue, white) that is not matched as required, and with the coordinates
\* returned only when both components of each fit in 16 bits: a marker matched
\* once at a coordinate above 65535 fails with OffsetTooLarge.
C4_MarkerUniqueness ==
    MarkerReturned =>
        /\ \A m \in 1..5 :
             (\A k \in 1..(m - 1) : MarkerCountFine(k) /\ MarkerFits(k)) =>
                /\ Cardinality(MarkerMatches(m)) > 1 =>
                      ret = Err(MarkerError(m, "ColorDuplicateInPixelDate"))
                /\ (m # 1 /\ MarkerMatches(m) = {}) =>
                      ret = Err(MarkerError(m, "ColorNotFoundInPixelData"))
                /\ (Cardinality(MarkerMatches(m)) = 1 /\ ~MarkerFits(m)) =>
                      ret = Err(OffsetTooLarge)
        /\ (\A m \in 1..5 : MarkerCountFine(m) /\ MarkerFits(m)) =>
              ret = Ok(MarkerDecoded)

\* Two red pixels after a single black one; no head pixel and a fallback to
\* center; a single red pixel beyond the u16 range.
W_C4_DuplicateRed ==
    /\ MarkerReturned
    /\ Cardinality(MarkerMatches(1)) = 1
    /\ Cardinality(MarkerMatches(2)) = 2
    /\ ret = Err(ColorDuplicateInPixelDate("Walk", 1, 0, "offsets", "red"))

(***************************************************************************)
(* Claims about the packer, on the state a generate_sheet call leaves.     *)
(***************************************************************************)
PackReturned == pc = "done" /\ call.op = "generate_sheet"
PackLines == call.self.images
PackPositions ==
    UNION {{<<l, k>> : k \in 1..Len(PackLines[l])} : l \in 1..Len(PackLines)}
PackFrames == {PackLines[q[1]][q[2]] : q \in PackPositions}
SetMax(S) == CHOOSE m \in S : \A x \in S : x <= m
FrameCoordinates(f) ==
    {f.offsets.head, f.offsets.hand_left, f.offsets.hand_right, f.offsets.center,
     f.offsets.shadow}
\* The cell the claims describe: the largest of 8, the image sizes and every
\* offset coordinate plus one.
ClaimedCellWidth ==
    SetMax({8} \cup {f.image.width : f \in PackFrames}
               \cup UNION {{c[1] + 1 : c \in FrameCoordinates(f)} : f \in PackFrames})
ClaimedCellHeight ==
    SetMax({8} \cup {f.image.height : f \in PackFrames}
               \cup UNION {{c[2] + 1 : c \in FrameCoordinates(f)} : f \in PackFrames})
MaxFramesPerLine == SetMax({0} \cup {Len(PackLines[l]) : l \in 1..Len(PackLines)})
NumLines == Len(PackLines)
\* n * m is a u32.
Fits(n, m) == m = 0 \/ n <= U32Max \div m
PackSheets == {ret.val.anim_img, ret.val.offset_img, ret.val.shadow_img}
HeadCollision(f) ==
    f.offsets.head = f.offsets.hand_left \/ f.offsets.head = f.offsets.hand_right

\* C7: when generate_sheet succeeds, the cell width is the maximum of 8, every
\* frame image's width and x + 1 for each of the five offsets of every frame,
\* and likewise the cell height: never under (8, 8), never under a frame image,
\* and above every offset coordinate.
C7_PackingCellSize ==
    (PackReturned /\ IsOk(ret)) =>
        /\ ret.val.segment_size = <<ClaimedCellWidth, ClaimedCellHeight>>
        /\ ret.val.segment_size[1] >= 8 /\ ret.val.segment_size[2] >= 8
        /\ \A f \in PackFrames :
             /\ ret.val.segment_size[1] >= f.image.width
             /\ ret.val.segment_size[2] >= f.image.height
             /\ \A c \in FrameCoordinates(f) :
                  ret.val.segment_size[1] > c[1] /\ ret.val.segment_size[2] > c[2]

W_C7_CellGrownByOffset ==
    /\ PackReturned
    /\ IsOk(ret)
    /\ ret.val.segment_size = <<U16Max + 1, 12>>
    /\ \A f \in PackFrames : f.image.width < 12 /\ f.image.height < 12

\* C8: with sheet dimensions that fit, generate_sheet returns
\* InvalidHeadPosition (and neither cell size nor canvas) if and only if some
\* frame has head = hand_left or head = hand_right; head = center is accepted.
C8_HeadCollisionGuard ==
    (/\ PackReturned
     /\ Fits(ClaimedCellWidth, SetMax({1, MaxFramesPerLine}))
     /\ Fits(ClaimedCellHeight, NumLines))
    => /\ ret = Err(InvalidHeadPosition) <=> \E f \in PackFrames : HeadCollision(f)
       /\ (~\E f \in PackFrames : HeadCollision(f)) => IsOk(ret)

W_C8_HeadOnHandRight ==
    /\ PackReturned
    /\ ret = Err(InvalidHeadPosition)
    /\ \E f \in PackFrames :
         f.offsets.head = f.offsets.hand_right /\ f.offsets.head # f.offsets.hand_left

\* Every stored (non-transparent) pixel of the sheet lies in the cell of a frame
\* of the animation: the cells past the end of a line are transparent.
OnlyFrameCellsPainted(sheet, cell) ==
    \A p \in DOMAIN sheet.data :
        <<p[2] \div cell[2] + 1, p[1] \div cell[1] + 1>> \in PackPositions

\* C9 as claimed: the three sheets have size (cell_width * max_frames_per_line,
\* cell_height * num_lines), an animation without lines or with only empty lines
\* included, and the cells past the end of a shorter line are transparent.
CE_C9_SheetExtents ==
    (/\ PackReturned /\ IsOk(ret)
     /\ Fits(ret.val.segment_size[1], SetMax({1, MaxFramesPerLine}))
     /\ Fits(ret.val.segment_size[2], NumLines))
    => \A sheet \in PackSheets :
         /\ sheet.width = ret.val.segment_size[1] * MaxFramesPerLine
         /\ sheet.height = ret.val.segment_size[2] * NumLines
         /\ OnlyFrameCellsPainted(sheet, ret.val.segment_size)

\* C9 amended: whenever both products fit in a u32, the three sheets have size
\* (cell_width * max(1, max_frames_per_line), cell_height * num_lines): an
\* animation without lines or with only empty lines gets sheets one cell wide.
\* The cells past the end of a shorter line are transparent in the three sheets.
C9_SheetExtents ==
    (/\ PackReturned /\ IsOk(ret)
     /\ Fits(ret.val.segment_size[1], SetMax({1, MaxFramesPerLine}))
     /\ Fits(ret.val.segment_size[2], NumLines))
    => \A sheet \in PackSheets :
         /\ sheet.width = ret.val.segment_size[1] * SetMax({1, MaxFramesPerLine})
         /\ sheet.height = ret.val.segment_size[2] * NumLines
         /\ OnlyFrameCellsPainted(sheet, ret.val.segment_size)

W_C9_ShorterLine ==
    /\ PackReturned
    /\ IsOk(ret)
    /\ NumLines = 3
    /\ Len(PackLines[1]) = 2 /\ Len(PackLines[2]) = 0 /\ Len(PackLines[3]) = 1
    /\ ret.val.anim_img.width = 2 * ret.val.segment_size[1]
    /\ ret.val.anim_img.height = 3 * ret.val.segment_size[2]

\* C10: generate_sheet fails with TooLargeGeneratedSheet whenever cell_width *
\* max_frames_per_line or cell_height * num_lines does not fit in a u32: no
\* wrapped dimension, no abort.
CE_C10_OversizedSheetGuard ==
    (/\ PackReturned
     /\ \/ ~Fits(ClaimedCellWidth, MaxFramesPerLine)
        \/ ~Fits(ClaimedCellHeight, NumLines))
    => ret = Err(TooLargeGeneratedSheet)

(***************************************************************************)
(* Claims about the decoder, on the state a Sprite::new call leaves.  The  *)
(* grids are told from the files: a sheet slices when both sides of the    *)
(* declared cell are non-zero and divide the sheet's, into height / cell   *)
(* height lines of width / cell width frames each.                         *)
(***************************************************************************)
DecodeReturned ==
    /\ pc = "done"
    /\ call.op = "new"
    /\ FileExists(vfs, <<"/", "AnimData.xml">>)
    /\ ReadFile(vfs, <<"/", "AnimData.xml">>).type = "xml"
Declared == ReadFile(vfs, <<"/", "AnimData.xml">>).doc["Anims"]["Anim"]
DeclaredDurations(k) == Declared[k]["Durations"]["Duration"]
SheetPath(k, kind) == <<"/", Declared[k]["Name"], "-", kind, ".png">>
SheetOf(k, kind) == ReadFile(vfs, SheetPath(k, kind)).image
Slices(k, kind) ==
    /\ FileExists(vfs, SheetPath(k, kind))
    /\ ReadFile(vfs, SheetPath(k, kind)).type = "png"
    /\ Declared[k]["FrameWidth"] # 0
    /\ Declared[k]["FrameHeight"] # 0
    /\ SheetOf(k, kind).width % Declared[k]["FrameWidth"] = 0
    /\ SheetOf(k, kind).height % Declared[k]["FrameHeight"] = 0
AllSlice(k) == \A kind \in SheetKinds : Slices(k, kind)
GridLines(k, kind) == SheetOf(k, kind).height \div Declared[k]["FrameHeight"]
GridFrames(k, kind) == SheetOf(k, kind).width \div Declared[k]["FrameWidth"]
LineCountsDiffer(k) ==
    \E a \in SheetKinds, b \in SheetKinds : GridLines(k, a) # GridLines(k, b)
FrameCountsDiffer(k) ==
    \E a \in SheetKinds, b \in SheetKinds :
        /\ GridLines(k, a) > 0
        /\ GridLines(k, b) > 0
        /\ GridFrames(k, a) # GridFrames(k, b)
\* The decode gets to animation k: the document was read and the animations
\* before k were decoded.
Reached(k) ==
    /\ IsOk(from_reader(ReadFile(vfs, <<"/", "AnimData.xml">>), call.empty_list_ok))
    /\ \A j \in 1..(k - 1) : IsOk(decode_animation(vfs, de_anim(Declared[j])))

\* C5: when the decode gets to an animation whose three sheets each slice
\* with the declared cell size and whose three grids differ in line count or
\* in the frame count of a line, Sprite::new returns
\* Err(SpriteSizeNotIdentical(name)); and whenever the folder holds such an
\* animation no Sprite is returned.
C5_CrossSheetConsistency ==
    DecodeReturned =>
        \A k \in 1..Len(Declared) :
            (AllSlice(k) /\ (LineCountsDiffer(k) \/ FrameCountsDiffer(k))) =>
                /\ ~IsOk(ret)
                /\ Reached(k) => ret = Err(SpriteSizeNotIdentical(Declared[k]["Name"]))

\* The second animation's grids have the same number of lines and differ in
\* the frames of a line only; the decode got to it and failed on it.
W_C5_FrameCountsDiffer ==
    /\ DecodeReturned
    /\ Len(Declared) = 2
    /\ Reached(2)
    /\ AllSlice(2)
    /\ ~LineCountsDiffer(2)
    /\ FrameCountsDiffer(2)
    /\ ret = Err(SpriteSizeNotIdentical(Declared[2]["Name"]))

\* C6: in a Sprite that Sprite::new returns, the animations are the declared
\* ones, every line of animation k has as many frames as the duration list
\* declared for k, and frame i of every line has duration i of that list; and
\* when the decode gets to an animation whose three grids agree, have a line,
\* and whose lines' frame count differs from the length of the duration list,
\* Sprite::new returns Err(InconsistantDuration(name, frame count, length)).
C6_DurationConsistency ==
    DecodeReturned =>
        /\ IsOk(ret) =>
              /\ Len(ret.val.animations) = Len(Declared)
              /\ \A k \in 1..Len(ret.val.animations) :
                    \A l \in 1..Len(ret.val.animations[k].images) :
                        LET line == ret.val.animations[k].images[l]
                        IN /\ Len(line) = Len(DeclaredDurations(k))
                           /\ \A i \in 1..Len(line) :
                                  line[i].duration = DeclaredDurations(k)[i]
        /\ \A k \in 1..Len(Declared) :
              (/\ Reached(k)
               /\ AllSlice(k)
               /\ ~LineCountsDiffer(k)
               /\ ~FrameCountsDiffer(k)
               /\ GridLines(k, "Anim") > 0
               /\ GridFrames(k, "Anim") # Len(DeclaredDurations(k))) =>
                  ret = Err(InconsistantDuration(Declared[k]["Name"],
                                                 GridFrames(k, "Anim"),
                                                 Len(DeclaredDurations(k))))

\* A Sprite was returned whose second animation has two lines of two frames
\* with two different durations.
W_C6_TwoLinesTwoDurations ==
    /\ DecodeReturned
    /\ IsOk(ret)
    /\ Len(ret.val.animations) = 2
    /\ Len(ret.val.animations[2].images) = 2
    /\ Len(ret.val.animations[2].images[2]) = 2
    /\ ret.val.animations[2].images[2][1].duration
           # ret.val.animations[2].images[2][2].duration

(***************************************************************************)
(* Claims about the round trip, on the state the two calls leave.          *)
(***************************************************************************)
RoundTripEnded == pc = "done" /\ call.op = "write_to_folder"
HeadOffHands(s) ==
    \A a \in 1..Len(s.animations) :
        \A l \in 1..Len(s.animations[a].images) :
            \A f \in 1..Len(s.animations[a].images[l]) :
                LET o == s.animations[a].images[l][f].offsets
                IN o.head # o.hand_left /\ o.head # o.hand_right

\* C1: for a Sprite in which every frame has head # hand_left and
\* head # hand_right, write_to_folder returns Ok and Sprite::new on the
\* written folder returns Ok of the same Sprite: the same animations in the
\* same order, with the same name, index, rush, hit and return frames, and
\* the same lines of frames with the same image (size and pixels), offsets
\* and duration.
CE_C1_RoundTrip ==
    (RoundTripEnded /\ HeadOffHands(sprite)) =>
        /\ IsOk(call.written)
        /\ ret = Ok(sprite)

(***************************************************************************)
(* Claims about the encoder, on the state a write_to_folder call leaves:   *)
(* call.before is the folder before the call, call.created the paths the   *)
(* call created, in the order it created them.                             *)
(***************************************************************************)
EncodeEnded == pc # "encode" /\ call.op = "write_to_folder"
Encoded == sprite.animations
Packed(k) == generate_sheet(Encoded[k], call.overflow_checks)
SheetPaths(k) ==
    <<<<Encoded[k].name, "-", "Anim", ".png">>,
      <<Encoded[k].name, "-", "Offsets", ".png">>,
      <<Encoded[k].name, "-", "Shadow", ".png">>>>
\* Animation k packed and its three sheets (all of one size) were encoded.
SheetsWritten(k) ==
    /\ IsOk(Packed(k))
    /\ \/ call.zero_area_ok
       \/ Packed(k).val.anim_img.width > 0 /\ Packed(k).val.anim_img.height > 0
\* The paths of the sheets of the animations 1..n, in the claimed order.
RECURSIVE PathsUpTo(_)
PathsUpTo(n) == IF n = 0 THEN <<>> ELSE PathsUpTo(n - 1) \o SheetPaths(n)
\* The folder once the sheets of the animations 1..n are written over
\* call.before, every other file left as it was.
RECURSIVE FolderAfter(_)
FolderAfter(n) ==
    IF n = 0 THEN call.before
    ELSE (SheetPaths(n)[1] :> PngFile(Packed(n).val.anim_img))
         @@ (SheetPaths(n)[2] :> PngFile(Packed(n).val.offset_img))
         @@ (SheetPaths(n)[3] :> PngFile(Packed(n).val.shadow_img))
         @@ FolderAfter(n - 1)
IsPrefix(s, t) == Len(s) <= Len(t) /\ \A i \in 1..Len(s) : s[i] = t[i]

\* C11: write_to_folder creates its files in the order name-Anim.png,
\* name-Offsets.png, name-Shadow.png of the animations in model order, then
\* AnimData.xml, and creates AnimData.xml only once the three sheets of every
\* animation are written.  When animation k is the first that does not pack,
\* the call ends with the outcome of that packing, it created the sheets of
\* the animations before k and nothing else, these are in the folder (no
\* rollback), and every other file of the folder, AnimData.xml included, is as
\* it was before the call.
C11_EncodeWriteOrdering ==
    EncodeEnded =>
        /\ IsPrefix(call.created, PathsUpTo(Len(Encoded)) \o <<<<"AnimData.xml">>>>)
        /\ (\E i \in 1..Len(call.created) : call.created[i] = <<"AnimData.xml">>)
              <=> IsOk(call.written)
        /\ IsOk(call.written) =>
              /\ \A k \in 1..Len(Encoded) : SheetsWritten(k)
              /\ Len(call.created) = 3 * Len(Encoded) + 1
              /\ \A p \in DOMAIN FolderAfter(Len(Encoded)) \ {<<"AnimData.xml">>} :
                    vfs[p] = FolderAfter(Len(Encoded))[p]
        /\ \A k \in 1..Len(Encoded) :
              ((\A j \in 1..(k - 1) : SheetsWritten(j)) /\ ~IsOk(Packed(k))) =>
                  /\ call.written = Packed(k)
                  /\ ret = Packed(k)
                  /\ call.created = PathsUpTo(k - 1)
                  /\ vfs = FolderAfter(k - 1)

\* The third animation does not pack: the call returned its error after it
\* wrote the six sheets of the first two over a folder that held an older
\* AnimData.xml, which is still there.
W_C11_ThirdAnimationFails ==
    /\ EncodeEnded
    /\ Len(Encoded) = 3
    /\ Encoded[2].name = "Idle"
    /\ SheetsWritten(1) /\ SheetsWritten(2)
    /\ ret = Err(InvalidHeadPosition)
    /\ Len(call.created) = 6
    /\ call.before = StaleFolder
    /\ vfs[<<"AnimData.xml">>] = OtherFile
    /\ vfs[<<"Idle", "-", "Shadow", ".png">>].type = "png"

(***************************************************************************)
(* The in-bounds claim about the packer, on the state a generate_sheet     *)
(* call leaves: a write that leaves the canvas ends the call with a panic, *)
(* and a write that leaves its cell shows in the sheets returned.          *)
(***************************************************************************)
\* The pixels that `sheet` stores in the cell of frame k of line l (from 1),
\* by their coordinate in the cell.
CellPixels(sheet, cell, l, k) ==
    LET inside == {p \in DOMAIN sheet.data :
                      /\ p[1] \div cell[1] = k - 1
                      /\ p[2] \div cell[2] = l - 1}
    IN [q \in {<<p[1] % cell[1], p[2] % cell[2]>> : p \in inside} |->
           sheet.data[<<q[1] + (k - 1) * cell[1], q[2] + (l - 1) * cell[2]>>]]
\* What the four marker writes of a frame leave at coordinate c: black for
\* the head, then green and alpha for the center, blue and alpha for
\* hand_right, red and alpha for hand_left.
MarkersAt(offsets, c) ==
    <<IF c = offsets.hand_left THEN 255 ELSE 0,
      IF c = offsets.center THEN 255 ELSE 0,
      IF c = offsets.hand_right THEN 255 ELSE 0,
      255>>
MarkerCell(offsets) ==
    [c \in {offsets.head, offsets.center, offsets.hand_right, offsets.hand_left} |->
        MarkersAt(offsets, c)]
OutOfBoundsPanics ==
    {"unwrap on Err", "Image index out of bounds", "attempt to add with overflow"}

\* C12: during generate_sheet the copy of every frame image and every marker
\* write falls inside the frame's own cell and inside the canvas: the call
\* never ends with the panic of copy_from(..).unwrap(), of a pixel access out
\* of bounds or of the sum that locates a write; and in the sheets returned
\* the cell of every frame lies in the canvas and holds the frame's image, its
\* four markers and its shadow marker, and nothing of another frame.
CE_C12_InBoundsWrites ==
    PackReturned =>
        /\ ret.tag = "Panic" => ret.msg \notin OutOfBoundsPanics
        /\ IsOk(ret) =>
              \A q \in PackPositions :
                  /\ \A sheet \in PackSheets :
                        /\ sheet.width \div ret.val.segment_size[1] >= q[2]
                        /\ sheet.height \div ret.val.segment_size[2] >= q[1]
                  /\ CellPixels(ret.val.anim_img, ret.val.segment_size, q[1], q[2])
                        = PackLines[q[1]][q[2]].image.data
                  /\ CellPixels(ret.val.offset_img, ret.val.segment_size, q[1], q[2])
                        = MarkerCell(PackLines[q[1]][q[2]].offsets)
                  /\ CellPixels(ret.val.shadow_img, ret.val.segment_size, q[1], q[2])
                        = (PackLines[q[1]][q[2]].offsets.shadow :> White)

====
